---- MODULE Spec2Model ----
(***************************************************************************)
(* A model of the catalog / dataset layer of qa_explorer:                  *)
(*   explorer/catalog.py  Catalog, MatchedCatalog, MultiMatchedCatalog,    *)
(*                        ParquetCatalog                                   *)
(*   explorer/dataset.py  QADataset                                        *)
(* Each subsystem has its own specification over the shared variables:     *)
(*   SpecMatch    one MatchedCatalog and its lazily computed match state   *)
(*   SpecMulti    one MultiMatchedCatalog and its sub-catalogs             *)
(*   SpecDataset  one QADataset, its result-table cache and scratch file   *)
(*   SpecColumns  get_columns on every catalog kind                        *)
(* A specification leaves the variables of the other subsystems idle.      *)
(***************************************************************************)
EXTENDS Integers, Sequences, FiniteSets, TLC

VARIABLES
    mc,         \* the MatchedCatalog object (SpecMatch)
    mc_ret,     \* outcome of the last call on mc
    mmc,        \* the MultiMatchedCatalog object (SpecMulti)
    mmc_args,   \* the arguments of MultiMatchedCatalog(...)
    mmc_ret,    \* outcome of the last call on mmc
    qa,         \* the QADataset object (SpecDataset)
    files,      \* the scratch directory: file name -> table stored in it
    qa_hist,    \* history of the QADataset: what was changed, what a read did
    cat,        \* the catalog get_columns is called on (SpecColumns)
    gc_ret,     \* outcome of the last get_columns call
    fn,         \* a functor (or functor dictionary) and the table it is called on
    fn_ret,     \* outcome of the last call on fn
    tbl,        \* the inputs of one materialization of the QADataset table
    tbl_ret     \* the table _make_df assembled from tbl

vars == <<mc, mc_ret, mmc, mmc_args, mmc_ret, qa, files, qa_hist, cat, gc_ret,
          fn, fn_ret, tbl, tbl_ret>>

(***************************************************************************)
(* Bounds of the model.                                                    *)
(***************************************************************************)
MaxRows == 2        \* rows of a catalog
MaxVisitRows == 1   \* rows of a visit catalog of a MultiMatchedCatalog
MaxVisits == 2      \* visit catalogs handed to a MultiMatchedCatalog
MaxRuns == 2        \* runs of the positional matcher on one MatchedCatalog
MaxReq == 2         \* names in one get_columns request
MaxFuncs == 2       \* functors in the dictionary of a CompositeFunctor

(***************************************************************************)
(* Floating point values: a finite number, NaN or +infinity.               *)
(***************************************************************************)
Fin(n) == [k |-> "fin", v |-> n]
NaN == [k |-> "nan", v |-> 0]
Inf == [k |-> "inf", v |-> 0]
NegInf == [k |-> "-inf", v |-> 0]

\* np.isfinite
isfinite(x) == x.k = "fin"

Abs(n) == IF n < 0 THEN -n ELSE n

\* x * c for a float x and a finite factor c > 0
FMul(x, c) == IF isfinite(x) THEN Fin(x.v * c) ELSE x

(***************************************************************************)
(* Python's None, and a value that is not None.                            *)
(***************************************************************************)
None == [set |-> FALSE, val |-> <<>>]
Some(v) == [set |-> TRUE, val |-> v]
IsNone(x) == ~x.set

(***************************************************************************)
(* A local variable: F applied to the value of e, which is computed once.  *)
(***************************************************************************)
With(e, F(_)) == CHOOSE y \in {F(x) : x \in {e}} : TRUE

(***************************************************************************)
(* Sequences: boolean-mask and positional indexing as numpy/pandas do it.  *)
(***************************************************************************)
Range(s) == {s[i] : i \in 1..Len(s)}

\* the positions of mask that hold TRUE, in order
TruePositions(mask) ==
    SelectSeq([i \in 1..Len(mask) |-> i], LAMBDA i : mask[i])

\* s[mask]
BoolIndex(s, mask) ==
    With(TruePositions(mask), LAMBDA pos : [k \in 1..Len(pos) |-> s[pos[k]]])

\* ~mask
Negate(mask) == [i \in 1..Len(mask) |-> ~mask[i]]

\* s[pos] for a sequence of positions (1-based here, 0-based in numpy)
InRange(s, pos) == \A k \in 1..Len(pos) : pos[k] \in 1..Len(s)
PosIndex(s, pos) == [k \in 1..Len(pos) |-> s[pos[k]]]

\* all sequences over S of length at most n
SeqsUpTo(S, n) == UNION {[1..k -> S] : k \in 0..n}

(***************************************************************************)
(* Catalogs.  A catalog has a kind, the set of its column names, its flag  *)
(* (boolean) columns in order, and its cached coordinates: one row per source, with *)
(* the row label (the index) and ra, dec in degrees.  "health" says what   *)
(* reading it does: "ok", "no_columns" (reading .columns raises) or        *)
(* "no_coords" (.columns works, reading the coordinates raises).           *)
(***************************************************************************)
ColumnNames == {"coord_ra", "coord_dec", "flux"}
UnknownNames == {"zzz"}

RaValues == {Fin(0), Fin(1), NaN}

\* the label of row i: catalog labels are not positions
Label(base, i) == base + 10 * i

RowsOf(base, n, ras) ==
    UNION {{[i \in 1..k |-> [id |-> Label(base, i), ra |-> c[i], dec |-> Fin(0)]] :
                c \in [1..k -> ras]} : k \in 0..n}

MkCatalog(kind, columns, flags, rows, health) ==
    [kind |-> kind, columns |-> columns, flags |-> flags,
     rows |-> rows, health |-> health]

\* the catalogs whose coordinates matter (matching)
CoordCatalogs(base, n, healths) ==
    {MkCatalog("ParquetCatalog", ColumnNames, <<>>, IF h = "ok" THEN r ELSE <<>>, h) :
        r \in RowsOf(base, n, RaValues), h \in healths}

\* Catalog.ra / Catalog.dec / Catalog.index: raise when the coordinates cannot be read
CoordsRaise(c) == c.health # "ok"
ra(c) == [i \in 1..Len(c.rows) |-> c.rows[i].ra]
dec(c) == [i \in 1..Len(c.rows) |-> c.rows[i].dec]
index(c) == [i \in 1..Len(c.rows) |-> c.rows[i].id]

(***************************************************************************)
(* The positional matcher (explorer/match.py), by its contract: for every  *)
(* point of list 1 the                                                     *)
(* separation, in degrees, to its nearest neighbour in list 2 and that     *)
(* neighbour's position.  No upper bound is applied: the radius is not     *)
(* used.  A point with no neighbour (a NaN coordinate, an empty list 2)    *)
(* gets an infinite separation and a position past the end of list 2.      *)
(* All rows lie on the equator (dec = 0), where the angular separation     *)
(* of two points is the difference of their right ascensions.              *)
(***************************************************************************)
Separation(ra1, dec1, ra2, dec2) ==
    IF isfinite(ra1) /\ isfinite(ra2) /\ dec1 = Fin(0) /\ dec2 = Fin(0)
    THEN Fin(Abs(ra1.v - ra2.v))
    ELSE NaN

Neighbours(ra1, dec1, ra2, dec2, i) ==
    {j \in 1..Len(ra2) : isfinite(Separation(ra1[i], dec1[i], ra2[j], dec2[j]))}

Nearest(ra1, dec1, ra2, dec2, i) ==
    CHOOSE j \in Neighbours(ra1, dec1, ra2, dec2, i) :
        \A l \in Neighbours(ra1, dec1, ra2, dec2, i) :
            LET sj == Separation(ra1[i], dec1[i], ra2[j], dec2[j]).v
                sl == Separation(ra1[i], dec1[i], ra2[l], dec2[l]).v
            IN sj < sl \/ (sj = sl /\ j <= l)

match_lists(ra1, dec1, ra2, dec2, radius) ==
    [dist |-> [i \in 1..Len(ra1) |->
                  IF Neighbours(ra1, dec1, ra2, dec2, i) = {}
                  THEN Inf
                  ELSE Separation(ra1[i], dec1[i],
                                  ra2[Nearest(ra1, dec1, ra2, dec2, i)],
                                  dec2[Nearest(ra1, dec1, ra2, dec2, i)])],
     inds |-> [i \in 1..Len(ra1) |->
                  IF Neighbours(ra1, dec1, ra2, dec2, i) = {}
                  THEN Len(ra2) + 1
                  ELSE Nearest(ra1, dec1, ra2, dec2, i)]]

(***************************************************************************)
(* MatchedCatalog.  A radius is a rational <<numerator, denominator>> of   *)
(* arcseconds, so that the default of 0.5 arcsec can be written.           *)
(***************************************************************************)
ArcsecPerDeg == 3600
DefaultMatchRadius == <<1, 2>>
Radii == {DefaultMatchRadius, <<2 * ArcsecPerDeg, 1>>}

\* match_radius / 3600
RadiusInDeg(r) == <<r[1], r[2] * ArcsecPerDeg>>

\* MatchedCatalog.__init__; runs counts the calls of the matcher (history)
MatchedCatalog_init(cat1, cat2, match_radius, client) ==
    [cat1 |-> cat1, cat2 |-> cat2, match_radius |-> match_radius,
     client |-> client,
     _match_distance |-> None, _match_inds1 |-> None,
     _match_inds2 |-> None, _bad_inds |-> None,
     runs |-> 0]

\* pd.Series(values, index=labels)
Series(values, labels) ==
    [k \in 1..Len(labels) |-> [idx |-> labels[k], val |-> values[k]]]

\* good = np.isfinite(dist)
GoodMask(dist) == [i \in 1..Len(dist) |-> isfinite(dist[i])]

\* a slip: the mask is not negated
BadInds_NotNegated(id1, good) == BoolIndex(id1, good)

\* self._bad_inds = id1[~good]
BadInds(id1, good) == BoolIndex(id1, Negate(good))

\* self._match_inds2 = id2[inds[good]]
MatchInds2(id2, inds, good) == PosIndex(id2, BoolIndex(inds, good))

\* self._match_distance = pd.Series(dist[good] * 3600, index=id1[good])
MatchDistance(dist, id1, good) ==
    With(BoolIndex(dist, good), LAMBDA gd :
        Series([k \in 1..Len(gd) |-> FMul(gd[k], ArcsecPerDeg)],
               BoolIndex(id1, good)))

\* MatchedCatalog._match_cats: the object after the call, and whether it raised
_match_cats(m) ==
    IF CoordsRaise(m.cat1) \/ CoordsRaise(m.cat2)
    THEN [raised |-> TRUE, m |-> m]
    ELSE
      With(match_lists(ra(m.cat1), dec(m.cat1), ra(m.cat2), dec(m.cat2),
                       RadiusInDeg(m.match_radius)), LAMBDA res :
      With(GoodMask(res.dist), LAMBDA good :
      With(index(m.cat1), LAMBDA id1 :
      With(index(m.cat2), LAMBDA id2 :
      With([m EXCEPT !.runs = @ + 1], LAMBDA ran :
         IF ~InRange(id2, BoolIndex(res.inds, good))
         THEN \* id2[inds[good]] raises IndexError after _match_inds1 was set
              [raised |-> TRUE,
               m |-> [ran EXCEPT !._match_inds1 = Some(BoolIndex(id1, good))]]
         ELSE [raised |-> FALSE,
               m |-> [ran EXCEPT
                        !._match_inds1 = Some(BoolIndex(id1, good)),
                        !._match_inds2 = Some(MatchInds2(id2, res.inds, good)),
                        !._match_distance = Some(MatchDistance(res.dist, id1, good)),
                        !._bad_inds = Some(BadInds(id1, good))]])))))

\* MatchedCatalog.match
MatchedCatalog_match(m) == _match_cats(m)

\* the lazy properties: run the matcher only while the cached value is None
match_distance(m) ==
    With(IF IsNone(m._match_distance) THEN _match_cats(m)
         ELSE [raised |-> FALSE, m |-> m], LAMBDA r :
        [raised |-> r.raised, m |-> r.m, value |-> r.m._match_distance])

match_inds1(m) ==
    With(IF IsNone(m._match_inds1) THEN _match_cats(m)
         ELSE [raised |-> FALSE, m |-> m], LAMBDA r :
        [raised |-> r.raised, m |-> r.m, value |-> r.m._match_inds1])

match_inds2(m) ==
    With(IF IsNone(m._match_inds2) THEN _match_cats(m)
         ELSE [raised |-> FALSE, m |-> m], LAMBDA r :
        [raised |-> r.raised, m |-> r.m, value |-> r.m._match_inds2])

\* MatchedCatalog.match_inds: (self.match_inds1, self.match_inds2)
match_inds(m) ==
    With(match_inds1(m), LAMBDA r1 :
        IF r1.raised THEN [raised |-> TRUE, m |-> r1.m, value |-> <<>>]
        ELSE With(match_inds2(r1.m), LAMBDA r2 :
            IF r2.raised THEN [raised |-> TRUE, m |-> r2.m, value |-> <<>>]
            ELSE [raised |-> FALSE, m |-> r2.m,
                  value |-> <<r1.value.val, r2.value.val>>]))

(***************************************************************************)
(* SpecMatch: one MatchedCatalog over two catalogs, any order of calls.    *)
(***************************************************************************)
Idle == [op |-> "none", raised |-> FALSE, value |-> <<>>]

OthersIdleInMatch ==
    /\ mmc = Idle /\ mmc_args = Idle /\ mmc_ret = Idle
    /\ qa = Idle /\ files = {} /\ qa_hist = Idle
    /\ cat = Idle /\ gc_ret = Idle
    /\ fn = Idle /\ fn_ret = Idle /\ tbl = Idle /\ tbl_ret = Idle

InitMatch ==
    /\ \E c1 \in CoordCatalogs(100, MaxRows, {"ok"}),
          c2 \in CoordCatalogs(200, MaxRows, {"ok", "no_coords"}),
          r \in Radii :
          mc = MatchedCatalog_init(c1, c2, r, None)
    /\ mc_ret = Idle
    /\ OthersIdleInMatch

OthersIdleMatch ==
    UNCHANGED <<mmc, mmc_args, mmc_ret, qa, files, qa_hist, cat, gc_ret,
                fn, fn_ret, tbl, tbl_ret>>

\* m.match()
Match ==
    \E r \in {MatchedCatalog_match(mc)} :
       /\ r.m.runs <= MaxRuns
       /\ mc' = r.m
       /\ mc_ret' = [op |-> "match", raised |-> r.raised]
       /\ OthersIdleMatch

\* m.match_distance
ReadMatchDistance ==
    \E r \in {match_distance(mc)} :
       /\ r.m.runs <= MaxRuns
       /\ mc' = r.m
       /\ mc_ret' = [op |-> "match_distance", raised |-> r.raised]
       /\ OthersIdleMatch

\* m.match_inds1
ReadMatchInds1 ==
    \E r \in {match_inds1(mc)} :
       /\ r.m.runs <= MaxRuns
       /\ mc' = r.m
       /\ mc_ret' = [op |-> "match_inds1", raised |-> r.raised]
       /\ OthersIdleMatch

\* m.match_inds2
ReadMatchInds2 ==
    \E r \in {match_inds2(mc)} :
       /\ r.m.runs <= MaxRuns
       /\ mc' = r.m
       /\ mc_ret' = [op |-> "match_inds2", raised |-> r.raised]
       /\ OthersIdleMatch

\* m.match_inds
ReadMatchInds ==
    \E r \in {match_inds(mc)} :
       /\ r.m.runs <= MaxRuns
       /\ mc' = r.m
       /\ mc_ret' = [op |-> "match_inds", raised |-> r.raised]
       /\ OthersIdleMatch

NextMatch ==
    \/ Match
    \/ ReadMatchDistance
    \/ ReadMatchInds1
    \/ ReadMatchInds2
    \/ ReadMatchInds

SpecMatch == InitMatch /\ [][NextMatch]_vars

\* the last call on mc returned normally: the match state is computed
Matched == mc_ret.op # "none" /\ ~mc_ret.raised

\* d <= r for a distance d in arcseconds and a radius r
WithinRadius(d, r) == d * r[2] <= r[1]

(***************************************************************************)
(* C1: after the first successful match(), every later match() and every   *)
(* read of match_distance, match_inds1, match_inds2, match_inds is a no-op *)
(* on match state; in particular the positional matcher is run at most     *)
(* once per MatchedCatalog instance.                                       *)
(***************************************************************************)
C1_MatcherRunsAtMostOnce == mc.runs <= 1

(***************************************************************************)
(* C9: with a matcher that returns the nearest-neighbour separation of     *)
(* every cat1 row, every reported separation is >= 0, every cat1 row in    *)
(* the good set (match_inds1) has a finite separation <= match_radius, and *)
(* a row whose nearest neighbour is farther than the radius is in the bad  *)
(* set.                                                                    *)
(***************************************************************************)
C9_GoodWithinRadius ==
    Matched =>
        /\ \A k \in 1..Len(mc._match_distance.val) :
              LET d == mc._match_distance.val[k].val
              IN isfinite(d) /\ d.v >= 0 /\ WithinRadius(d.v, mc.match_radius)
        /\ \A i \in 1..Len(mc.cat1.rows) :
              LET nn == match_lists(ra(mc.cat1), dec(mc.cat1), ra(mc.cat2), dec(mc.cat2),
                                    RadiusInDeg(mc.match_radius)).dist[i]
              IN (isfinite(nn) /\ ~WithinRadius(nn.v * ArcsecPerDeg, mc.match_radius))
                    => index(mc.cat1)[i] \in Range(mc._bad_inds.val)

(***************************************************************************)
(* C10: after matching, the match state partitions cat1's rows:            *)
(* match_inds1 and match_inds2 have equal length, the distance series is   *)
(* indexed by exactly match_inds1, every cat1 label is in exactly one of   *)
(* match_inds1 and the bad-id set, and every entry of match_inds2 is a     *)
(* label of cat2.                                                          *)
(***************************************************************************)
C10_MatchPartition ==
    Matched =>
        /\ ~IsNone(mc._match_inds1) /\ ~IsNone(mc._match_inds2)
        /\ ~IsNone(mc._match_distance) /\ ~IsNone(mc._bad_inds)
        /\ Len(mc._match_inds1.val) = Len(mc._match_inds2.val)
        /\ [k \in 1..Len(mc._match_distance.val) |-> mc._match_distance.val[k].idx]
              = mc._match_inds1.val
        /\ Range(mc._match_inds1.val) \cup Range(mc._bad_inds.val)
              = Range(index(mc.cat1))
        /\ Range(mc._match_inds1.val) \cap Range(mc._bad_inds.val) = {}
        /\ Len(mc._match_inds1.val) + Len(mc._bad_inds.val) = Len(mc.cat1.rows)
        /\ Range(mc._match_inds2.val) \subseteq Range(index(mc.cat2))

\* a match that found a good row and a bad row
C10_Witness ==
    /\ Matched
    /\ Len(mc._match_inds1.val) > 0
    /\ Len(mc._bad_inds.val) > 0

(***************************************************************************)
(* MultiMatchedCatalog: a coadd catalog matched against N visit catalogs.  *)
(***************************************************************************)
\* the validity probe of __init__: reading v.columns raises
ColumnsRaise(v) == v.health = "no_columns"

\* a slip: break instead of continue, the visits after a bad one are lost
GoodVisitCats_Break(visit_cats) ==
    LET bad == {i \in 1..Len(visit_cats) : ColumnsRaise(visit_cats[i])}
    IN IF bad = {} THEN visit_cats
       ELSE SubSeq(visit_cats, 1, (CHOOSE i \in bad : \A j \in bad : i <= j) - 1)

\* the loop of __init__ that keeps the visits whose .columns can be read
GoodVisitCats(visit_cats) ==
    SelectSeq(visit_cats, LAMBDA v : ~ColumnsRaise(v))

\* MultiMatchedCatalog.__init__; each sub-catalog is MatchedCatalog(coadd_cat, v)
MultiMatchedCatalog_init(coadd_cat, visit_cats, match_radius, client) ==
    [coadd_cat |-> coadd_cat,
     visit_cats |-> GoodVisitCats(visit_cats),
     match_radius |-> match_radius,
     client |-> client,
     subcats |-> [i \in 1..Len(GoodVisitCats(visit_cats)) |->
                    MatchedCatalog_init(coadd_cat, GoodVisitCats(visit_cats)[i],
                                        DefaultMatchRadius, None)]]

\* the first sub-catalog whose call raises, 0 when none does
FirstRaise(results) ==
    IF \A i \in 1..Len(results) : ~results[i].raised THEN 0
    ELSE CHOOSE i \in 1..Len(results) :
            results[i].raised /\ \A j \in 1..(i - 1) : ~results[j].raised

\* a slip: no try/except, the first sub-match that raises ends the loop
MatchLoop_Abort(subcats) ==
    With([i \in 1..Len(subcats) |-> MatchedCatalog_match(subcats[i])], LAMBDA results :
    With(FirstRaise(results), LAMBDA stop :
        [i \in 1..Len(subcats) |->
            IF stop = 0 \/ i <= stop THEN results[i].m ELSE subcats[i]]))

\* for i, c in enumerate(self.subcats): try: c.match() except: warning
\* (the sub-catalogs are separate objects: every one is matched, in order)
MatchLoop(subcats) ==
    [i \in 1..Len(subcats) |-> MatchedCatalog_match(subcats[i]).m]

\* MultiMatchedCatalog.match
MultiMatchedCatalog_match(mm) ==
    [raised |-> FALSE, mm |-> [mm EXCEPT !.subcats = MatchLoop(mm.subcats)]]

\* MultiMatchedCatalog.match_inds: the loop reads c.match_inds of every
\* sub-catalog in order and stops at the first that raises; ind1 is what the
\* last iteration bound it to and is unbound when there is no sub-catalog
MultiMatchedCatalog_match_inds(mm) ==
    With([i \in 1..Len(mm.subcats) |-> match_inds(mm.subcats[i])], LAMBDA results :
    With(FirstRaise(results), LAMBDA stop :
    With([i \in 1..Len(mm.subcats) |->
            IF stop = 0 \/ i <= stop THEN results[i].m ELSE mm.subcats[i]], LAMBDA after :
       IF stop # 0 \/ Len(mm.subcats) = 0
       THEN [raised |-> TRUE, mm |-> [mm EXCEPT !.subcats = after], value |-> <<>>]
       ELSE [raised |-> FALSE, mm |-> [mm EXCEPT !.subcats = after],
             value |-> <<results[Len(mm.subcats)].value[1]>>
                         \o [i \in 1..Len(mm.subcats) |-> results[i].value[2]]])))

(***************************************************************************)
(* SpecMulti: a MultiMatchedCatalog is constructed, then matched and read  *)
(* in any order.                                                           *)
(***************************************************************************)
CoaddRaValues == {Fin(0), NaN}
VisitRaValues == {Fin(0)}

CoaddCatalogs ==
    {MkCatalog("ParquetCatalog", ColumnNames, <<>>, r, "ok") :
        r \in RowsOf(100, MaxRows, CoaddRaValues)}

VisitCatalogs ==
    {MkCatalog("ParquetCatalog", ColumnNames, <<>>, r, "ok") :
        r \in RowsOf(200, MaxVisitRows, VisitRaValues)}
    \cup {MkCatalog("ParquetCatalog", ColumnNames, <<>>, <<>>, h) :
            h \in {"no_columns", "no_coords"}}

Unconstructed == [op |-> "none", raised |-> FALSE, subcats |-> <<>>]

InitMulti ==
    /\ \E c \in CoaddCatalogs, vs \in SeqsUpTo(VisitCatalogs, MaxVisits), r \in Radii :
          mmc_args = [coadd_cat |-> c, visit_cats |-> vs, match_radius |-> r,
                      client |-> None]
    /\ mmc = Unconstructed
    /\ mmc_ret = Idle
    /\ mc = Idle /\ mc_ret = Idle
    /\ qa = Idle /\ files = {} /\ qa_hist = Idle
    /\ cat = Idle /\ gc_ret = Idle
    /\ fn = Idle /\ fn_ret = Idle /\ tbl = Idle /\ tbl_ret = Idle

OthersIdleMulti ==
    UNCHANGED <<mc, mc_ret, mmc_args, qa, files, qa_hist, cat, gc_ret,
                fn, fn_ret, tbl, tbl_ret>>

Constructed == mmc_ret.op # "none"

\* MultiMatchedCatalog(coadd_cat, visit_cats, match_radius, client)
MultiConstruct ==
    /\ ~Constructed
    /\ mmc' = MultiMatchedCatalog_init(mmc_args.coadd_cat, mmc_args.visit_cats,
                                       mmc_args.match_radius, mmc_args.client)
    /\ mmc_ret' = [op |-> "init", raised |-> FALSE, value |-> <<>>]
    /\ OthersIdleMulti

\* mm.match()
MultiMatch ==
    /\ Constructed
    /\ \E r \in {MultiMatchedCatalog_match(mmc)} :
       /\ \A i \in 1..Len(mmc.subcats) : r.mm.subcats[i].runs <= MaxRuns
       /\ mmc' = r.mm
       /\ mmc_ret' = [op |-> "match", raised |-> r.raised, value |-> <<>>]
       /\ OthersIdleMulti

\* mm.match_inds
MultiReadMatchInds ==
    /\ Constructed
    /\ \E r \in {MultiMatchedCatalog_match_inds(mmc)} :
       /\ mmc' = r.mm
       /\ mmc_ret' = [op |-> "match_inds", raised |-> r.raised, value |-> r.value]
       /\ OthersIdleMulti

NextMulti ==
    \/ MultiConstruct
    \/ MultiMatch
    \/ MultiReadMatchInds

SpecMulti == InitMulti /\ [][NextMulti]_vars

\* sub-catalog c holds computed match state
HasMatchState(c) ==
    /\ ~IsNone(c._match_inds1) /\ ~IsNone(c._match_inds2)
    /\ ~IsNone(c._match_distance) /\ ~IsNone(c._bad_inds)

(***************************************************************************)
(* C6: constructing a MultiMatchedCatalog from any list of visit catalogs, *)
(* some of which fail the validity probe, succeeds; visit_cats holds       *)
(* exactly the visits that passed the probe, in their original order, and  *)
(* subcats holds one MatchedCatalog (coadd vs. that visit) per remaining   *)
(* visit in the same order.                                                *)
(***************************************************************************)
C6_BadVisitsDropped ==
    Constructed =>
        /\ \E f \in [1..Len(mmc.visit_cats) -> 1..Len(mmc_args.visit_cats)] :
              /\ \A k \in 1..Len(mmc.visit_cats) :
                    /\ mmc.visit_cats[k] = mmc_args.visit_cats[f[k]]
                    /\ \A l \in 1..Len(mmc.visit_cats) : k < l => f[k] < f[l]
              /\ \A j \in 1..Len(mmc_args.visit_cats) :
                    (mmc_args.visit_cats[j].health # "no_columns")
                        <=> (\E k \in 1..Len(mmc.visit_cats) : f[k] = j)
        /\ Len(mmc.subcats) = Len(mmc.visit_cats)
        /\ \A k \in 1..Len(mmc.subcats) :
              /\ mmc.subcats[k].cat1 = mmc.coadd_cat
              /\ mmc.subcats[k].cat2 = mmc.visit_cats[k]
        /\ mmc.coadd_cat = mmc_args.coadd_cat

\* a construction that dropped a bad visit standing before a good one
C6_Witness ==
    /\ Constructed
    /\ Len(mmc_args.visit_cats) = 2
    /\ mmc_args.visit_cats[1].health = "no_columns"
    /\ Len(mmc.visit_cats) = 1

(***************************************************************************)
(* C7: MultiMatchedCatalog.match() never raises; a sub-match that raises   *)
(* is skipped and every sub-catalog after it is still matched: after       *)
(* match() returns, every sub-catalog whose match does not raise holds     *)
(* computed match state.                                                   *)
(***************************************************************************)
C7_MatchIsolatesFailures ==
    mmc_ret.op = "match" =>
        /\ ~mmc_ret.raised
        /\ \A i \in 1..Len(mmc.subcats) :
              ~MatchedCatalog_match(mmc.subcats[i]).raised
                  => (HasMatchState(mmc.subcats[i]) /\ mmc.subcats[i].runs >= 1)

\* match() returned with a failed sub-match before a computed one
C7_Witness ==
    /\ mmc_ret.op = "match"
    /\ Len(mmc.subcats) = 2
    /\ MatchedCatalog_match(mmc.subcats[1]).raised
    /\ HasMatchState(mmc.subcats[2])

(***************************************************************************)
(* C8: MultiMatchedCatalog.match_inds returns the coadd labels followed by *)
(* one label sequence per visit, aligned per visit: for every visit i the  *)
(* returned coadd labels and the returned visit-i labels are the matched   *)
(* pairs of sub-catalog i.                                                 *)
(***************************************************************************)
C8_MatchIndsAlignedPerVisit ==
    (mmc_ret.op = "match_inds" /\ ~mmc_ret.raised) =>
        /\ Len(mmc_ret.value) = Len(mmc.subcats) + 1
        /\ \A i \in 1..Len(mmc.subcats) :
              /\ Len(mmc_ret.value[1]) = Len(mmc_ret.value[i + 1])
              /\ mmc_ret.value[1] = mmc.subcats[i]._match_inds1.val
              /\ mmc_ret.value[i + 1] = mmc.subcats[i]._match_inds2.val

(***************************************************************************)
(* QADataset.  The catalog, the functor set, the flags and the query are   *)
(* tokens; the table _make_df builds is determined by them.  A catalog     *)
(* that cannot be evaluated makes _make_df raise.                          *)
(***************************************************************************)
DatasetCatalogs == {"coadd", "visit", "unreadable"}
FunctorSets == {"funcs1", "funcs2"}
FlagLists == {<<>>, <<"flag1">>}
Queries == {None, Some("x > 0")}
ScratchNames == {"tmpa", "tmpb"}
Clients == {None, Some("client")}

\* the table CompositeFunctor(self.allfuncs)(self.catalog, query=self.query, ...) yields
Table(q) == [catalog |-> q.catalog, funcs |-> q.funcs, flags |-> q.flags,
             query |-> q._query]

MakeRaises(q) == q.catalog = "unreadable"

\* QADataset._reset
_reset(q) == [q EXCEPT !._df_computed = FALSE, !._ds = None]

\* QADataset._set_catalog
_set_catalog(q, catalog) == _reset([q EXCEPT !.catalog = catalog])

\* QADataset._set_funcs (funcs, xFunc and labeller are one token)
_set_funcs(q, funcs) == _reset([q EXCEPT !.funcs = funcs])

\* a slip: the flags are stored and the cache is not reset
_set_flags_NoReset(q, flags) ==
    [q EXCEPT !.flags = IF IsNone(flags) THEN <<>> ELSE flags.val]

\* QADataset._set_flags: None stands for no flags
_set_flags(q, flags) ==
    _reset([q EXCEPT !.flags = IF IsNone(flags) THEN <<>> ELSE flags.val])

\* the setter of QADataset.query
set_query(q, new) == _reset([q EXCEPT !._query = new])

\* QADataset.__init__
QADataset_init(catalog, funcs, flags, query, client, oom) ==
    [_set_flags(_set_funcs(_set_catalog(
        [catalog |-> "unset", funcs |-> "unset", flags |-> <<>>,
         _query |-> None, client |-> None, _df_file |-> None, oom |-> FALSE,
         _df_computed |-> FALSE, _df |-> None, _ds |-> None,
         _ds_dict |-> None, _color_ds_dict |-> None],
        catalog), funcs), flags)
     EXCEPT !.client = client, !._query = query, !._df_file = None, !.oom = oom]

\* QADataset.df_file: the name is drawn once and kept
df_file(q, name) ==
    IF IsNone(q._df_file) THEN [q EXCEPT !._df_file = Some(name)] ELSE q

\* QADataset._make_df: the object and the scratch directory after the call
_make_df(q, fs, name) ==
    IF MakeRaises(q)
    THEN [raised |-> TRUE, q |-> q, fs |-> fs]
    ELSE IF q.oom
         THEN [raised |-> FALSE,
               q |-> [df_file(q, name) EXCEPT !._df_computed = TRUE,
                                              !._df = Some(Table(q))],
               fs |-> {f \in fs : f.name # df_file(q, name)._df_file.val}
                        \cup {[name |-> df_file(q, name)._df_file.val,
                               table |-> Table(q)]}]
         ELSE [raised |-> FALSE,
               q |-> [q EXCEPT !._df_computed = TRUE, !._df = Some(Table(q))],
               fs |-> fs]

\* QADataset.df: the table comes from self._df, the read of the scratch
\* file after the return statement is never reached
df(q, fs, name) ==
    LET r == IF ~q._df_computed THEN _make_df(q, fs, name)
             ELSE [raised |-> FALSE, q |-> q, fs |-> fs]
    IN [raised |-> r.raised, q |-> r.q, fs |-> r.fs,
        built |-> ~q._df_computed,
        source |-> "memory",
        value |-> IF r.raised THEN None ELSE r.q._df]

\* QADataset.__getstate__: odict is self.__dict__ itself, not a copy, so the
\* assignment odict['client'] = None is made on the object
__getstate__(q) ==
    [q |-> [q EXCEPT !.client = None], odict |-> [q EXCEPT !.client = None]]

\* QADataset.save: pickle.dump(self, ...) pickles what __getstate__ returns
save(q) == [q |-> __getstate__(q).q, pickled |-> __getstate__(q).odict]

\* QADataset.__del__
QADataset_del(q, fs, name) ==
    IF q._df_computed /\ q.oom
    THEN [q |-> df_file(q, name),
          fs |-> {f \in fs : f.name # df_file(q, name)._df_file.val}]
    ELSE [q |-> q, fs |-> fs]

(***************************************************************************)
(* SpecDataset: one QADataset; its inputs are changed and its table is     *)
(* read in any order until it is destroyed.  qa_hist is history: whether   *)
(* the object is alive, whether an input was changed since the last        *)
(* materialization, whether a table was ever materialized or persisted,    *)
(* and what the last call did.                                             *)
(***************************************************************************)
InitDataset ==
    /\ \E c \in DatasetCatalogs, f \in FunctorSets, fl \in FlagLists,
          qy \in Queries, cl \in Clients, o \in BOOLEAN :
          qa = QADataset_init(c, f, Some(fl), qy, cl, o)
    /\ files = {}
    /\ qa_hist = [alive |-> TRUE, dirty |-> TRUE, ever_built |-> FALSE,
                  persisted |-> FALSE,
                  last |-> [op |-> "init", was_dirty |-> TRUE, built |-> FALSE,
                            rebuilt |-> FALSE, source |-> "none"]]
    /\ mc = Idle /\ mc_ret = Idle
    /\ mmc = Idle /\ mmc_args = Idle /\ mmc_ret = Idle
    /\ cat = Idle /\ gc_ret = Idle
    /\ fn = Idle /\ fn_ret = Idle /\ tbl = Idle /\ tbl_ret = Idle

OthersIdleDataset ==
    UNCHANGED <<mc, mc_ret, mmc, mmc_args, mmc_ret, cat, gc_ret,
                fn, fn_ret, tbl, tbl_ret>>

Changed(op) ==
    [qa_hist EXCEPT !.dirty = TRUE,
                    !.last = [op |-> op, was_dirty |-> qa_hist.dirty, built |-> FALSE,
                              rebuilt |-> FALSE, source |-> "none"]]

SetCatalog ==
    /\ qa_hist.alive
    /\ \E c \in DatasetCatalogs : qa' = _set_catalog(qa, c)
    /\ qa_hist' = Changed("_set_catalog")
    /\ UNCHANGED files
    /\ OthersIdleDataset

SetFuncs ==
    /\ qa_hist.alive
    /\ \E f \in FunctorSets : qa' = _set_funcs(qa, f)
    /\ qa_hist' = Changed("_set_funcs")
    /\ UNCHANGED files
    /\ OthersIdleDataset

SetFlags ==
    /\ qa_hist.alive
    /\ \E fl \in {None} \cup {Some(x) : x \in FlagLists} : qa' = _set_flags(qa, fl)
    /\ qa_hist' = Changed("_set_flags")
    /\ UNCHANGED files
    /\ OthersIdleDataset

SetQuery ==
    /\ qa_hist.alive
    /\ \E qy \in Queries : qa' = set_query(qa, qy)
    /\ qa_hist' = Changed("query")
    /\ UNCHANGED files
    /\ OthersIdleDataset

\* d.df
ReadDf ==
    /\ qa_hist.alive
    /\ \E n \in ScratchNames :
          LET r == df(qa, files, n)
          IN /\ qa' = r.q
             /\ files' = r.fs
             /\ qa_hist' =
                   [qa_hist EXCEPT
                       !.dirty = IF r.built /\ ~r.raised THEN FALSE ELSE @,
                       !.ever_built = @ \/ (r.built /\ ~r.raised),
                       !.persisted = @ \/ (r.fs # files),
                       !.last = [op |-> "df", was_dirty |-> qa_hist.dirty,
                                 built |-> r.built,
                                 rebuilt |-> r.built /\ ~r.raised /\ qa_hist.ever_built,
                                 source |-> IF r.raised THEN "none" ELSE r.source]]
    /\ OthersIdleDataset

\* d.save(filename); the pickle file is not in the scratch directory
Save ==
    /\ qa_hist.alive
    /\ qa' = save(qa).q
    /\ qa_hist' = [qa_hist EXCEPT !.last = [op |-> "save", was_dirty |-> qa_hist.dirty,
                                            built |-> FALSE, rebuilt |-> FALSE,
                                            source |-> "none"]]
    /\ UNCHANGED files
    /\ OthersIdleDataset

\* del d
Destroy ==
    /\ qa_hist.alive
    /\ \E n \in ScratchNames :
          /\ qa' = QADataset_del(qa, files, n).q
          /\ files' = QADataset_del(qa, files, n).fs
    /\ qa_hist' = [qa_hist EXCEPT !.alive = FALSE,
                                  !.last = [op |-> "del", was_dirty |-> qa_hist.dirty,
                                            built |-> FALSE, rebuilt |-> FALSE,
                                            source |-> "none"]]
    /\ OthersIdleDataset

NextDataset ==
    \/ SetCatalog
    \/ SetFuncs
    \/ SetFlags
    \/ SetQuery
    \/ ReadDf
    \/ Save
    \/ Destroy

SpecDataset == InitDataset /\ [][NextDataset]_vars

(***************************************************************************)
(* C2: reading df runs _make_df if and only if the catalog, the functor    *)
(* set, the flags or the query was changed (through _set_catalog,          *)
(* _set_funcs, _set_flags or the query setter) since the last              *)
(* materialization; consecutive reads with no such change build the table  *)
(* once.                                                                   *)
(***************************************************************************)
C2_RebuildIffChanged ==
    qa_hist.last.op = "df" => (qa_hist.last.built <=> qa_hist.last.was_dirty)

\* a df read that rebuilt the table after an input was changed
C2_WitnessRebuilt == qa_hist.last.op = "df" /\ qa_hist.last.rebuilt

(***************************************************************************)
(* C3: if the result table was ever persisted to the scratch file, then    *)
(* destroying the Dataset removes that scratch file: no persisted scratch  *)
(* file outlives its Dataset.                                              *)
(***************************************************************************)
C3_ScratchFileRemoved == ~qa_hist.alive => files = {}

(***************************************************************************)
(* C4: in out-of-memory mode (oom=True), once the result table has been    *)
(* persisted the Dataset keeps no in-memory copy of it, and every df read  *)
(* returns the table reloaded from the scratch file.                       *)
(***************************************************************************)
C4_OomKeepsNoCopy ==
    (qa_hist.alive /\ qa.oom /\ qa_hist.persisted) =>
        /\ IsNone(qa._df)
        /\ (qa_hist.last.op = "df" /\ qa_hist.last.source # "none")
              => qa_hist.last.source = "file"

(***************************************************************************)
(* Column access.  A call of get_columns ends in reads of the underlying   *)
(* table or storage; its outcome lists, per catalog read, the known column *)
(* set of that catalog and the names handed to the read.                   *)
(***************************************************************************)
\* list(S) for a set S: some order
SetToSeq(S) ==
    CHOOSE q \in [1..Cardinality(S) -> S] : Range(q) = S

\* Catalog._sanitize_columns
_sanitize_columns(c, columns) ==
    LET bad_cols == SelectSeq(columns, LAMBDA n : n \notin c.columns)
    IN SetToSeq(Range(columns) \ Range(bad_cols))

\* the table or storage read: a name the table does not hold raises
ReadRaises(c, names) == ~(Range(names) \subseteq c.columns)

\* Catalog.get_columns: return self.data[columns]
Catalog_get_columns(c, columns, check_columns) ==
    LET cols == IF check_columns THEN _sanitize_columns(c, columns) ELSE columns
    IN [raised |-> ReadRaises(c, cols),
        reads |-> <<[known |-> c.columns, names |-> cols]>>]

\* ParquetCatalog._read_data: dd.read_parquet(self.filenames, columns=columns)
_read_data(c, columns, add_flags) ==
    LET cols == IF add_flags THEN columns \o c.flags ELSE columns
    IN [raised |-> ReadRaises(c, cols),
        reads |-> <<[known |-> c.columns, names |-> cols]>>]

\* ParquetCatalog.get_columns: the branch taken is the one that reads (use_cache and False)
ParquetCatalog_get_columns(c, columns, add_flags) ==
    _read_data(c, columns, add_flags)

\* get_columns(columns) on a plain catalog of either kind
LeafGetColumns(c, columns) ==
    IF c.kind = "Catalog"
    THEN Catalog_get_columns(c, columns, TRUE)
    ELSE ParquetCatalog_get_columns(c, columns, FALSE)

\* MatchedCatalog.get_columns: cat1 then cat2, the first raise ends the call
MatchedCatalog_get_columns(m, columns) ==
    IF LeafGetColumns(m.cat1, columns).raised
    THEN LeafGetColumns(m.cat1, columns)
    ELSE [raised |-> LeafGetColumns(m.cat2, columns).raised,
          reads |-> LeafGetColumns(m.cat1, columns).reads
                      \o LeafGetColumns(m.cat2, columns).reads]

RECURSIVE VisitsGetColumns(_, _, _, _)
\* tuple(c.get_columns(...) for c in self.visit_cats)
VisitsGetColumns(visit_cats, columns, i, reads) ==
    IF i > Len(visit_cats) THEN [raised |-> FALSE, reads |-> reads]
    ELSE IF LeafGetColumns(visit_cats[i], columns).raised
         THEN [raised |-> TRUE,
               reads |-> reads \o LeafGetColumns(visit_cats[i], columns).reads]
         ELSE VisitsGetColumns(visit_cats, columns, i + 1,
                               reads \o LeafGetColumns(visit_cats[i], columns).reads)

\* MultiMatchedCatalog.get_columns: the coadd catalog, then every visit catalog
MultiMatchedCatalog_get_columns(mm, columns) ==
    IF LeafGetColumns(mm.coadd_cat, columns).raised
    THEN LeafGetColumns(mm.coadd_cat, columns)
    ELSE VisitsGetColumns(mm.visit_cats, columns, 1,
                          LeafGetColumns(mm.coadd_cat, columns).reads)

\* catalog.get_columns(columns) for a catalog of any kind
get_columns(c, columns) ==
    IF c.kind = "MatchedCatalog" THEN MatchedCatalog_get_columns(c.obj, columns)
    ELSE IF c.kind = "MultiMatchedCatalog"
         THEN MultiMatchedCatalog_get_columns(c.obj, columns)
         ELSE LeafGetColumns(c.obj, columns)

(***************************************************************************)
(* SpecColumns: get_columns is called with any request on a catalog of any *)
(* kind.                                                                   *)
(***************************************************************************)
LeafColumnSets == {{"coord_ra", "flag1"}, {"coord_ra", "flux", "flag1"}}
RequestNames == {"coord_ra", "flux", "flag1"} \cup UnknownNames

LeafCatalogs ==
    {MkCatalog("Catalog", cs, <<>>, <<>>, "ok") : cs \in LeafColumnSets}
    \cup {MkCatalog("ParquetCatalog", cs, <<"flag1">>, <<>>, "ok") : cs \in LeafColumnSets}

AnyCatalogs ==
    {[kind |-> l.kind, obj |-> l] : l \in LeafCatalogs}
    \cup {[kind |-> "MatchedCatalog",
           obj |-> MatchedCatalog_init(c1, c2, DefaultMatchRadius, None)] :
            c1 \in LeafCatalogs, c2 \in LeafCatalogs}
    \cup {[kind |-> "MultiMatchedCatalog",
           obj |-> MultiMatchedCatalog_init(c, vs, DefaultMatchRadius, None)] :
            c \in LeafCatalogs, vs \in SeqsUpTo(LeafCatalogs, MaxVisits)}

InitColumns ==
    /\ cat \in AnyCatalogs
    /\ gc_ret = Idle
    /\ mc = Idle /\ mc_ret = Idle
    /\ mmc = Idle /\ mmc_args = Idle /\ mmc_ret = Idle
    /\ qa = Idle /\ files = {} /\ qa_hist = Idle
    /\ fn = Idle /\ fn_ret = Idle /\ tbl = Idle /\ tbl_ret = Idle

\* catalog.get_columns(columns)
GetColumns ==
    /\ \E columns \in SeqsUpTo(RequestNames, MaxReq) :
          gc_ret' = [op |-> "get_columns", request |-> columns,
                     raised |-> get_columns(cat, columns).raised,
                     reads |-> get_columns(cat, columns).reads]
    /\ UNCHANGED <<cat, mc, mc_ret, mmc, mmc_args, mmc_ret, qa, files, qa_hist,
                   fn, fn_ret, tbl, tbl_ret>>

\* ParquetCatalog.get_columns(columns, add_flags=...)
GetColumnsAddFlags ==
    /\ cat.kind = "ParquetCatalog"
    /\ \E columns \in SeqsUpTo(RequestNames, MaxReq), add_flags \in BOOLEAN :
          \E r \in {ParquetCatalog_get_columns(cat.obj, columns, add_flags)} :
             gc_ret' = [op |-> "get_columns_add_flags", request |-> columns,
                        raised |-> r.raised, reads |-> r.reads]
    /\ UNCHANGED <<cat, mc, mc_ret, mmc, mmc_args, mmc_ret, qa, files, qa_hist,
                   fn, fn_ret, tbl, tbl_ret>>

NextColumns ==
    \/ GetColumns
    \/ GetColumnsAddFlags

SpecColumns == InitColumns /\ [][NextColumns]_vars

(***************************************************************************)
(* C5: for every catalog kind, get_columns with a request that contains    *)
(* names outside the catalog's known column set never raises, and the      *)
(* names passed on to the underlying table or storage read are exactly the *)
(* requested names that are in the known column set.                       *)
(***************************************************************************)
C5_UnknownColumnsDropped ==
    gc_ret.op = "get_columns" =>
        /\ ~gc_ret.raised
        /\ \A k \in 1..Len(gc_ret.reads) :
              Range(gc_ret.reads[k].names) = Range(gc_ret.request) \cap gc_ret.reads[k].known

\* a sequence that names nothing twice
NoDuplicates(names) ==
    \A i, j \in 1..Len(names) : names[i] = names[j] => i = j

(***************************************************************************)
(* C19: every column list handed to the storage read (dd.read_parquet in   *)
(* ParquetCatalog._read_data) names no column twice, whatever list was     *)
(* requested and whether or not the flag columns are added.                *)
(***************************************************************************)
C19_StorageReadDeduplicated ==
    (gc_ret.op # "none" /\ cat.kind = "ParquetCatalog") =>
        \A k \in 1..Len(gc_ret.reads) : NoDuplicates(gc_ret.reads[k].names)

(***************************************************************************)
(* Functors (explorer/functors.py).  A column name is a sequence of        *)
(* chunks, each a run of letters and underscores or a run of digits:       *)
(* a_flux is <<"a", "_flux">>, x1 is <<"x", "1">>.  A functor is a record  *)
(* of its class and its attributes.                                        *)
(***************************************************************************)
DigitChunks == {"1"}
FluxSuffix == "_flux"

\* col.endswith('_flux') / re.search('_flux$', c)
EndsWithFlux(n) == Len(n) > 0 /\ n[Len(n)] = FluxSuffix

\* '{}_flux'.format(c)
AddFlux(n) == Append(n, FluxSuffix)

\* fluxName
fluxName(col) == IF ~EndsWithFlux(col) THEN AddFlux(col) ELSE col

\* the class attribute _allow_difference as the class sees it
Class_allow_difference(cls) ==
    cls \notin {"IDColumn", "CoordColumn", "RAColumn", "DecColumn",
                "Labeller", "StarGalaxyLabeller", "NumStarLabeller"}

\* Functor.__init__
Functor_init(self, allow_difference) ==
    [self EXCEPT !.allow_difference =
        IF ~IsNone(allow_difference) THEN allow_difference.val
        ELSE Class_allow_difference(self.cls)]

\* an instance before __init__ has run
NewFunctor(cls) ==
    [cls |-> cls, col |-> <<>>, col2 |-> <<>>, expr |-> <<>>, calculate |-> FALSE,
     funcDict |-> <<>>, allow_difference |-> TRUE]

\* Column.__init__
Column(col, allow_difference) ==
    Functor_init([NewFunctor("Column") EXCEPT !.col = col], allow_difference)

\* IDColumn: Column with the class attributes col = 'id', _allow_difference = False
IDColumn(col, allow_difference) ==
    Functor_init([NewFunctor("IDColumn") EXCEPT !.col = col], allow_difference)

\* CoordColumn.__init__: super().__init__(col, allow_difference=calculate)
CoordColumn(cls, col, calculate) ==
    Functor_init([NewFunctor(cls) EXCEPT !.col = col, !.calculate = calculate],
                 Some(calculate))

\* RAColumn.__init__ / DecColumn.__init__
RAColumn(calculate) == CoordColumn("RAColumn", <<"coord_ra">>, calculate)
DecColumn(calculate) == CoordColumn("DecColumn", <<"coord_dec">>, calculate)

\* Mag.__init__
Mag(col, allow_difference) ==
    Functor_init([NewFunctor("Mag") EXCEPT !.col = fluxName(col)], allow_difference)

\* MagDiff.__init__
MagDiff(col1, col2, allow_difference) ==
    Functor_init([NewFunctor("MagDiff") EXCEPT !.col = fluxName(col1),
                                               !.col2 = fluxName(col2)],
                 allow_difference)

\* StarGalaxyLabeller, NumStarLabeller: no __init__ of their own
StarGalaxyLabeller(allow_difference) ==
    Functor_init(NewFunctor("StarGalaxyLabeller"), allow_difference)
NumStarLabeller(allow_difference) ==
    Functor_init(NewFunctor("NumStarLabeller"), allow_difference)

\* DeconvolvedMoments: no __init__ of its own
DeconvolvedMoments(allow_difference) ==
    Functor_init(NewFunctor("DeconvolvedMoments"), allow_difference)

\* CustomFunctor.__init__
CustomFunctor(expr, allow_difference) ==
    Functor_init([NewFunctor("CustomFunctor") EXCEPT !.expr = expr], allow_difference)

\* CompositeFunctor.__init__; funcDict is the sequence of the dictionary's values
CompositeFunctor(funcDict, allow_difference) ==
    Functor_init([NewFunctor("CompositeFunctor") EXCEPT !.funcDict = funcDict],
                 allow_difference)

(***************************************************************************)
(* The columns a functor declares.                                         *)
(***************************************************************************)
ExtendednessColumn == <<"base_ClassificationExtendedness_value">>
NumStarColumn == <<"numStarFlags">>
HsmSourceXX == <<"ext_shapeHSM_HsmSourceMoments_xx">>
HsmSourceYY == <<"ext_shapeHSM_HsmSourceMoments_yy">>
SdssXX == <<"base_SdssShape_xx">>
SdssYY == <<"base_SdssShape_yy">>
HsmPsfXX == <<"ext_shapeHSM_HsmPsfMoments_xx">>
HsmPsfYY == <<"ext_shapeHSM_HsmPsfMoments_yy">>

\* an expression of a CustomFunctor is its sequence of operands: a name,
\* mag(name), or another function applied to a name
NameTok(n) == [t |-> "name", f |-> <<>>, n |-> n]
MagTok(n) == [t |-> "mag", f |-> <<"mag">>, n |-> n]
CallTok(f, n) == [t |-> "call", f |-> <<f>>, n |-> n]

\* CustomFunctor._ignore_words
_ignore_words == {<<"mag">>, <<"sin">>, <<"cos">>, <<"exp">>, <<"log">>, <<"sqrt">>}

\* re.findall('[a-zA-Z_]+', name): the maximal runs of chunks that are not digits
LetterRuns(n) ==
    With(SelectSeq([i \in 1..Len(n) |-> i],
                   LAMBDA i : n[i] \notin DigitChunks
                              /\ (i = 1 \/ n[i - 1] \in DigitChunks)), LAMBDA starts :
        [k \in 1..Len(starts) |->
            SubSeq(n, starts[k],
                   CHOOSE j \in starts[k]..Len(n) :
                      /\ \A l \in starts[k]..j : n[l] \notin DigitChunks
                      /\ (j = Len(n) \/ n[j + 1] \in DigitChunks))])

RECURSIVE Flatten(_)
\* [x for y in lists for x in y]
Flatten(lists) ==
    IF lists = <<>> THEN <<>> ELSE Head(lists) \o Flatten(Tail(lists))

\* re.findall('[a-zA-Z_]+', self.expr)
Words(expr) ==
    Flatten([i \in 1..Len(expr) |->
                (IF expr[i].t = "name" THEN <<>> ELSE <<expr[i].f>>)
                    \o LetterRuns(expr[i].n)])

\* re.findall('mag\(\s*(\w+)\s*\)', self.expr)
FluxCols(expr) ==
    With(SelectSeq(expr, LAMBDA tok : tok.t = "mag"), LAMBDA mags :
        [k \in 1..Len(mags) |-> mags[k].n])

\* CustomFunctor.columns
CustomFunctor_columns(self) ==
    With(FluxCols(self.expr), LAMBDA flux_cols :
    With(SelectSeq(Words(self.expr), LAMBDA c : c \notin _ignore_words)
            \o [k \in 1..Len(flux_cols) |->
                  IF ~EndsWithFlux(flux_cols[k]) THEN AddFlux(flux_cols[k])
                  ELSE flux_cols[k]], LAMBDA cols :
    With({flux_cols[k] : k \in {k \in 1..Len(flux_cols) : ~EndsWithFlux(flux_cols[k])}},
         LAMBDA not_a_col :
        SetToSeq({c \in Range(cols) : c \notin not_a_col}))))

\* the columns property of a functor that is not composite
LeafColumns(self) ==
    CASE self.cls \in {"Column", "IDColumn", "CoordColumn", "RAColumn", "DecColumn"}
            -> <<self.col>>
      [] self.cls = "Mag" -> <<self.col>>
      [] self.cls = "MagDiff" -> <<self.col, self.col2>>
      [] self.cls = "StarGalaxyLabeller" -> <<ExtendednessColumn>>
      [] self.cls = "NumStarLabeller" -> <<NumStarColumn>>
      [] self.cls = "DeconvolvedMoments"
            -> <<HsmSourceXX, HsmSourceYY, SdssXX, SdssYY, HsmPsfXX, HsmPsfYY>>
      [] self.cls = "CustomFunctor" -> CustomFunctor_columns(self)

\* a slip: only the first functor's columns
CompositeFunctor_columns_First(self) ==
    IF self.funcDict = <<>> THEN <<>> ELSE LeafColumns(self.funcDict[1])

\* CompositeFunctor.columns
CompositeFunctor_columns(self) ==
    Flatten([i \in 1..Len(self.funcDict) |-> LeafColumns(self.funcDict[i])])

\* f.columns
columns(self) ==
    IF self.cls = "CompositeFunctor" THEN CompositeFunctor_columns(self)
    ELSE LeafColumns(self)

(***************************************************************************)
(* The columns _func reads from the table it is given.  A table is known   *)
(* here by the set of its column names; df[name] for a name the table      *)
(* does not hold raises.                                                   *)
(***************************************************************************)
ReadCols(table, names) ==
    [raised |-> ~(names \subseteq table.cols), reads |-> names \cap table.cols]

\* the column names an expression refers to once mag(x) is rewritten to
\* log(x) (first attempt) or to log(x_flux) (second attempt)
Idents(expr, flux) ==
    {IF expr[i].t = "mag" /\ flux THEN AddFlux(expr[i].n) ELSE expr[i].n :
        i \in 1..Len(expr)}

\* mag_aware_eval: df.eval of the first rewriting, of the second if that raises
mag_aware_eval(table, expr) ==
    IF Idents(expr, FALSE) \subseteq table.cols
    THEN [raised |-> FALSE, reads |-> Idents(expr, FALSE)]
    ELSE [raised |-> ~(Idents(expr, TRUE) \subseteq table.cols),
          reads |-> (Idents(expr, FALSE) \cup Idents(expr, TRUE)) \cap table.cols]

\* DeconvolvedMoments._func
DeconvolvedMoments_func(table) ==
    With(IF HsmSourceXX \in table.cols THEN {HsmSourceXX, HsmSourceYY} ELSE {}, LAMBDA hsm :
        IF ~(hsm \subseteq table.cols) THEN ReadCols(table, hsm)
        ELSE IF ~({SdssXX, SdssYY} \subseteq table.cols)
             THEN ReadCols(table, hsm \cup {SdssXX, SdssYY})
        ELSE IF HsmPsfXX \in table.cols
             THEN ReadCols(table, hsm \cup {SdssXX, SdssYY, HsmPsfXX, HsmPsfYY})
             ELSE [raised |-> TRUE, reads |-> hsm \cup {SdssXX, SdssYY}])

\* f._func(df): whether it raises and the columns of df it read
FuncReads(self, table) ==
    CASE self.cls \in {"Column", "IDColumn", "CoordColumn", "RAColumn", "DecColumn"}
            -> ReadCols(table, {self.col})
      [] self.cls = "Mag" -> ReadCols(table, {self.col})
      [] self.cls = "MagDiff" -> ReadCols(table, {self.col, self.col2})
      [] self.cls = "StarGalaxyLabeller" -> ReadCols(table, {ExtendednessColumn})
      [] self.cls = "NumStarLabeller" -> ReadCols(table, {NumStarColumn})
      [] self.cls = "DeconvolvedMoments" -> DeconvolvedMoments_func(table)
      [] self.cls = "CustomFunctor" -> mag_aware_eval(table, self.expr)

(***************************************************************************)
(* SpecFunctors: a functor constructed with any arguments, and a table;    *)
(* its declared columns are read and its _func is run on the table.  The   *)
(* table is the full table, the table of the declared columns, or the      *)
(* full table without one group of moment columns.                         *)
(***************************************************************************)
ColNames == {<<"a">>, <<"b">>, <<"c">>}

Exprs ==
    {<<NameTok(<<"a">>)>>,                          \* a
     <<MagTok(<<"a">>)>>,                           \* mag(a)
     <<MagTok(<<"a", "_flux">>)>>,                  \* mag(a_flux)
     <<MagTok(<<"a">>), NameTok(<<"b">>)>>,         \* mag(a) - b
     <<NameTok(<<"x", "1">>)>>,                     \* x1
     <<CallTok("log", <<"a">>), NameTok(<<"b">>)>>} \* log(a) + b

AllowArgs == {None, Some(TRUE), Some(FALSE)}

LeafFunctors ==
    UNION {{Column(n, ad) : n \in ColNames \cup {<<"x", "1">>}}
            \cup {IDColumn(<<"id">>, ad),
                  Mag(<<"a">>, ad), Mag(<<"a", "_flux">>, ad),
                  MagDiff(<<"a">>, <<"b">>, ad),
                  StarGalaxyLabeller(ad), NumStarLabeller(ad),
                  DeconvolvedMoments(ad)}
            \cup {CustomFunctor(e, ad) : e \in Exprs} : ad \in AllowArgs}
    \cup {RAColumn(c) : c \in BOOLEAN} \cup {DecColumn(c) : c \in BOOLEAN}

PartFunctors ==
    {Column(n, None) : n \in ColNames}
    \cup {MagDiff(p[1], p[2], None) :
            p \in {q \in ColNames \X ColNames : q[1] # q[2]}}

Composites ==
    {CompositeFunctor(fd, None) : fd \in SeqsUpTo(PartFunctors, MaxFuncs)}

AllNames ==
    UNION {Range(LeafColumns(f)) : f \in LeafFunctors}
    \cup UNION {Idents(e, FALSE) \cup Idents(e, TRUE) : e \in Exprs}

TablesFor(f) ==
    {[cols |-> cs] : cs \in {AllNames, Range(columns(f)),
                            AllNames \ {HsmSourceXX, HsmSourceYY},
                            AllNames \ {HsmPsfXX, HsmPsfYY}}}

InitFunctors ==
    /\ fn \in UNION {{[functor |-> f, table |-> t] : t \in TablesFor(f)} :
                        f \in LeafFunctors \cup Composites}
    /\ fn_ret = Idle
    /\ tbl = Idle /\ tbl_ret = Idle
    /\ mc = Idle /\ mc_ret = Idle
    /\ mmc = Idle /\ mmc_args = Idle /\ mmc_ret = Idle
    /\ qa = Idle /\ files = {} /\ qa_hist = Idle
    /\ cat = Idle /\ gc_ret = Idle

OthersIdleFunctors ==
    UNCHANGED <<mc, mc_ret, mmc, mmc_args, mmc_ret, qa, files, qa_hist, cat, gc_ret,
                fn, tbl, tbl_ret>>

\* f.columns
ReadColumns ==
    /\ fn_ret' = [op |-> "columns", raised |-> FALSE, value |-> columns(fn.functor)]
    /\ OthersIdleFunctors

\* f._func(df)
EvalFunc ==
    /\ fn.functor.cls # "CompositeFunctor"
    /\ \E r \in {FuncReads(fn.functor, fn.table)} :
          fn_ret' = [op |-> "_func", raised |-> r.raised, value |-> r.reads]
    /\ OthersIdleFunctors

NextFunctors ==
    \/ ReadColumns
    \/ EvalFunc

SpecFunctors == InitFunctors /\ [][NextFunctors]_vars

LabellerClasses == {"StarGalaxyLabeller", "NumStarLabeller"}

(***************************************************************************)
(* C12: every Labeller instance (StarGalaxyLabeller, NumStarLabeller),     *)
(* whatever arguments it was constructed with, has allow_difference equal  *)
(* to False.                                                               *)
(***************************************************************************)
C12_LabellersNeverDifferenced ==
    fn.functor.cls \in LabellerClasses => ~fn.functor.allow_difference

(***************************************************************************)
(* C14: CompositeFunctor.columns, taken as a set, is the union of the      *)
(* declared columns of the functors in its dictionary.                     *)
(***************************************************************************)
C14_CompositeColumnsAreUnion ==
    (fn_ret.op = "columns" /\ fn.functor.cls = "CompositeFunctor") =>
        Range(fn_ret.value) =
            UNION {Range(LeafColumns(fn.functor.funcDict[i])) :
                        i \in 1..Len(fn.functor.funcDict)}

\* the columns of functors that need {a, b} and {b, c} are {a, b, c}
C14_Witness ==
    /\ fn_ret.op = "columns"
    /\ fn.functor.cls = "CompositeFunctor"
    /\ fn.functor.funcDict = <<MagDiff(<<"a">>, <<"b">>, None),
                               MagDiff(<<"b">>, <<"c">>, None)>>
    /\ Len(fn_ret.value) = 4
    /\ Range(fn_ret.value) = {<<"a", "_flux">>, <<"b", "_flux">>, <<"c", "_flux">>}

(***************************************************************************)
(* C15: for every functor of functors.py, every column its _func reads     *)
(* from the input table is one of the functor's declared columns.          *)
(***************************************************************************)
C15_FuncReadsDeclared ==
    fn_ret.op = "_func" => fn_ret.value \subseteq Range(columns(fn.functor))

(***************************************************************************)
(* Calling a functor on a table.  The values of a result are floats or     *)
(* strings (labels).                                                       *)
(***************************************************************************)
Str(label) == [k |-> "str", v |-> label]

\* pandas isnull: NaN (None is stored as NaN in a float column)
isnull(x) == x = NaN

\* x < 0.5 for a float x: false for NaN
LessThanHalf(x) == x = NegInf \/ (isfinite(x) /\ 2 * x.v < 1)

\* the categories of the label, in the order of their codes
LabelCategories == <<"galaxy", "star", "null">>

\* a slip: the null rows are not masked
StarGalaxyLabeller_func_NoMask(self, table) ==
    IF ExtendednessColumn \notin table.cols
    THEN [raised |-> TRUE, value |-> <<>>]
    ELSE [raised |-> FALSE,
          value |-> [i \in 1..Len(table.x) |->
                        Str(LabelCategories[
                              (IF LessThanHalf(table.x[i]) THEN 1 ELSE 0) + 1])]]

\* StarGalaxyLabeller._func: codes 1 where x < 0.5, 0 elsewhere, 2 where x is null
StarGalaxyLabeller_func(self, table) ==
    IF ExtendednessColumn \notin table.cols
    THEN [raised |-> TRUE, value |-> <<>>]
    ELSE With(table.x, LAMBDA x :
         With([i \in 1..Len(x) |-> isnull(x[i])], LAMBDA mask :
         With([i \in 1..Len(x) |-> IF LessThanHalf(x[i]) THEN 1 ELSE 0], LAMBDA test :
            [raised |-> FALSE,
             value |-> [i \in 1..Len(x) |->
                          Str(LabelCategories[(IF mask[i] THEN 2 ELSE test[i]) + 1])]])))

\* Functor.__call__ on a table: _func (self is a StarGalaxyLabeller), then
\* with dropna the finite values, or the values that are not null where
\* finiteness does not apply
Functor_call(self, table, dropna) ==
    With(StarGalaxyLabeller_func(self, table), LAMBDA r :
        IF r.raised \/ ~dropna THEN r
        ELSE IF \A i \in 1..Len(r.value) : r.value[i].k # "str"
             THEN [raised |-> FALSE,
                   value |-> SelectSeq(r.value, LAMBDA v : isfinite(v))]
             ELSE [raised |-> FALSE,
                   value |-> SelectSeq(r.value, LAMBDA v : ~isnull(v))])

\* Labeller.__call__: dropna is overridden
Labeller_call(self, table, dropna) == Functor_call(self, table, FALSE)

(***************************************************************************)
(* SpecLabel: a StarGalaxyLabeller is called on a table whose extendedness *)
(* column holds any values, with any dropna.                               *)
(***************************************************************************)
ExtendednessValues == {Fin(0), Fin(1), NaN, Inf, NegInf}

InitLabel ==
    /\ fn \in {[functor |-> StarGalaxyLabeller(ad),
                table |-> [cols |-> cs, x |-> x]] :
                  ad \in AllowArgs, cs \in {{ExtendednessColumn}, {NumStarColumn}},
                  x \in SeqsUpTo(ExtendednessValues, MaxRows)}
    /\ fn_ret = Idle
    /\ tbl = Idle /\ tbl_ret = Idle
    /\ mc = Idle /\ mc_ret = Idle
    /\ mmc = Idle /\ mmc_args = Idle /\ mmc_ret = Idle
    /\ qa = Idle /\ files = {} /\ qa_hist = Idle
    /\ cat = Idle /\ gc_ret = Idle

\* labeller(df, dropna=...)
CallLabeller ==
    /\ \E dropna \in BOOLEAN :
          \E r \in {Labeller_call(fn.functor, fn.table, dropna)} :
             fn_ret' = [op |-> "call", dropna |-> dropna,
                        raised |-> r.raised, value |-> r.value]
    /\ OthersIdleFunctors

NextLabel == CallLabeller

SpecLabel == InitLabel /\ [][NextLabel]_vars

(***************************************************************************)
(* C11: for every input row StarGalaxyLabeller outputs exactly one of      *)
(* "galaxy", "star", "null"; the output is "null" exactly for the rows     *)
(* whose extendedness value is null; there is one label per input row,     *)
(* whatever dropna the caller passes.                                      *)
(***************************************************************************)
C11_OneLabelPerRow ==
    (fn_ret.op = "call" /\ ~fn_ret.raised) =>
        /\ Len(fn_ret.value) = Len(fn.table.x)
        /\ \A i \in 1..Len(fn_ret.value) :
              /\ fn_ret.value[i].k = "str"
              /\ fn_ret.value[i].v \in {"galaxy", "star", "null"}
              /\ (fn_ret.value[i].v = "null") <=> isnull(fn.table.x[i])

\* a call with dropna=True on a table with a null row and a row that is not null
C11_Witness ==
    /\ fn_ret.op = "call" /\ ~fn_ret.raised /\ fn_ret.dropna
    /\ \E i, j \in 1..Len(fn.table.x) :
          /\ isnull(fn.table.x[i]) /\ fn_ret.value[i].v = "null"
          /\ ~isnull(fn.table.x[j]) /\ fn_ret.value[j].v = "star"

(***************************************************************************)
(* The table QADataset._make_df assembles, cell by cell.  The frame the    *)
(* CompositeFunctor call returns has a row label and two value columns, a  *)
(* and b: two functors, or for a multi-band catalog one magnitude in two   *)
(* filters.  The assembled table adds the match-distance column md and the *)
(* color column a - b where the catalog kind has them; Absent marks a      *)
(* column the table does not have.  A catalog is known by the outcomes of  *)
(* the isinstance tests and of reading its match_distance.                 *)
(***************************************************************************)
Absent == [k |-> "absent", v |-> 0]

IsInfinite(x) == x = Inf \/ x = NegInf

\* x - y for floats
FSub(x, y) ==
    IF isfinite(x) /\ isfinite(y) THEN Fin(x.v - y.v)
    ELSE IF isnull(x) \/ isnull(y) THEN NaN
    ELSE IF isfinite(y) THEN x
    ELSE IF isfinite(x) THEN (IF y = Inf THEN NegInf ELSE Inf)
    ELSE IF x = y THEN NaN
    ELSE x

TableCatalog(cls, matched, multi, idmatched, multiband, distance_raises) ==
    [cls |-> cls, is_matched |-> matched, is_multi_matched |-> multi,
     is_idmatched |-> idmatched, is_multiband |-> multiband,
     distance_raises |-> distance_raises]

\* Catalog, MatchedCatalog and MultiMatchedCatalog as catalog.py defines them
\* (a MultiMatchedCatalog never sets _match_distance: reading match_distance
\* raises AttributeError); IDMatchedCatalog and MultiBandCatalog with every
\* base class they may have
TableCatalogs ==
    {TableCatalog("Catalog", FALSE, FALSE, FALSE, FALSE, FALSE),
     TableCatalog("MatchedCatalog", TRUE, FALSE, FALSE, FALSE, FALSE),
     TableCatalog("MultiMatchedCatalog", TRUE, TRUE, FALSE, FALSE, TRUE)}
    \cup {TableCatalog("IDMatchedCatalog", m, FALSE, TRUE, FALSE, FALSE) : m \in BOOLEAN}
    \cup {TableCatalog("MultiBandCatalog", m[1], m[2], FALSE, TRUE, FALSE) :
            m \in {<<FALSE, FALSE>>, <<TRUE, FALSE>>, <<TRUE, TRUE>>}}

\* pd.concat([df, self.catalog.match_distance.dropna(how='all')], axis=1)
ConcatDistance(rows, dist) ==
    [i \in 1..Len(rows) |-> [rows[i] EXCEPT !.md = dist[i]]]

\* the value cells of a row
Cells(row) == {row.a, row.b, row.md, row.color}

\* df.dropna(how='any')
DropNaAny(rows) == SelectSeq(rows, LAMBDA row : \A c \in Cells(row) : ~isnull(c))

\* a slip: the infinite cells are kept
ReplaceInf_Keep(rows) == rows

\* df.replace([-np.inf, np.inf], np.nan)
ReplaceInf(rows) ==
    [i \in 1..Len(rows) |->
        [f \in DOMAIN rows[i] |->
            IF f # "id" /\ IsInfinite(rows[i][f]) THEN NaN ELSE rows[i][f]]]

\* the color columns of a multi-band catalog: mags[c1] - mags[c2], the rows
\* with a null color dropped from color_df, then pd.concat([df, color_df], axis=1)
AddColors(rows) ==
    [i \in 1..Len(rows) |-> [rows[i] EXCEPT !.color = FSub(rows[i].a, rows[i].b)]]

\* QADataset._make_df from the frame of the CompositeFunctor call on
MakeTable(t) ==
    With([i \in 1..Len(t.rows) |->
            [id |-> t.rows[i].id, a |-> t.rows[i].a, b |-> t.rows[i].b,
             md |-> Absent, color |-> Absent]], LAMBDA df0 :
        IF t.catalog.is_matched /\ ~t.catalog.is_idmatched /\ t.catalog.distance_raises
        THEN [raised |-> TRUE, value |-> <<>>]
        ELSE
    With(IF t.catalog.is_matched /\ ~t.catalog.is_idmatched
         THEN ConcatDistance(df0, t.dist) ELSE df0, LAMBDA df1 :
    With(IF ~t.catalog.is_matched THEN DropNaAny(df1) ELSE df1, LAMBDA df2 :
    With(ReplaceInf(df2), LAMBDA df3 :
        [raised |-> FALSE,
         value |-> IF t.catalog.is_multiband /\ t.has_mag THEN AddColors(df3)
                   ELSE df3]))))

(***************************************************************************)
(* SpecTable: one materialization of the table, for every catalog kind and *)
(* any computed values.                                                    *)
(***************************************************************************)
ValuesA == {Fin(0), NaN, Inf, NegInf}
ValuesB == {Fin(0), NaN}
DistanceValues == {Fin(0), NaN, Inf}

Frames ==
    UNION {{[i \in 1..n |-> [id |-> Label(100, i), a |-> va[i], b |-> vb[i]]] :
                va \in [1..n -> ValuesA], vb \in [1..n -> ValuesB]} : n \in 0..MaxRows}

\* the match distances of the rows: a catalog without a match-distance
\* column has none
DistancesFor(c, n) ==
    IF c.is_matched /\ ~c.is_idmatched /\ ~c.distance_raises
    THEN [1..n -> DistanceValues]
    ELSE {[i \in 1..n |-> NaN]}

InitTable ==
    /\ \E c \in TableCatalogs, r \in Frames :
          \E d \in DistancesFor(c, Len(r)),
             m \in IF c.is_multiband THEN BOOLEAN ELSE {FALSE} :
             tbl = [catalog |-> c, rows |-> r, dist |-> d, has_mag |-> m]
    /\ tbl_ret = Idle
    /\ fn = Idle /\ fn_ret = Idle
    /\ mc = Idle /\ mc_ret = Idle
    /\ mmc = Idle /\ mmc_args = Idle /\ mmc_ret = Idle
    /\ qa = Idle /\ files = {} /\ qa_hist = Idle
    /\ cat = Idle /\ gc_ret = Idle

\* d._make_df()
MakeDf ==
    /\ \E r \in {MakeTable(tbl)} :
          tbl_ret' = [op |-> "_make_df", raised |-> r.raised, value |-> r.value]
    /\ UNCHANGED <<mc, mc_ret, mmc, mmc_args, mmc_ret, qa, files, qa_hist, cat, gc_ret,
                   fn, fn_ret, tbl>>

NextTable == MakeDf

SpecTable == InitTable /\ [][NextTable]_vars

Materialized == tbl_ret.op = "_make_df" /\ ~tbl_ret.raised

(***************************************************************************)
(* C17: for every catalog kind and every computed value, no cell of the    *)
(* materialized table is +infinity or -infinity: an infinite computed      *)
(* value, in the match-distance column and in a color column too, is null  *)
(* in the table.                                                           *)
(***************************************************************************)
C17_NoInfiniteCell ==
    Materialized =>
        /\ \A i \in 1..Len(tbl_ret.value) :
              \A c \in Cells(tbl_ret.value[i]) : ~IsInfinite(c)
        /\ \A i \in 1..Len(tbl_ret.value) : \A j \in 1..Len(tbl.rows) :
              tbl_ret.value[i].id = tbl.rows[j].id =>
                 /\ IsInfinite(tbl.rows[j].a) => isnull(tbl_ret.value[i].a)
                 /\ (tbl_ret.value[i].md # Absent /\ IsInfinite(tbl.dist[j]))
                        => isnull(tbl_ret.value[i].md)

\* a table with a match-distance column, from an infinite computed value and
\* an infinite match distance
C17_Witness ==
    /\ Materialized
    /\ \E i \in 1..Len(tbl_ret.value) :
          /\ IsInfinite(tbl.rows[i].a) /\ isnull(tbl_ret.value[i].a)
          /\ IsInfinite(tbl.dist[i]) /\ isnull(tbl_ret.value[i].md)

(***************************************************************************)
(* C18: for an unmatched (plain) catalog the materialized table is         *)
(* null-free: no row holds a null in any column, whatever the computed     *)
(* values, infinite ones included.                                         *)
(***************************************************************************)
C18_PlainTableNullFree ==
    (Materialized /\ tbl.catalog.cls = "Catalog") =>
        \A i \in 1..Len(tbl_ret.value) :
            \A c \in Cells(tbl_ret.value[i]) : ~isnull(c)

(***************************************************************************)
(* The views of a QADataset: allfuncs, ds, get_ds, get_color_ds, color_ds. *)
(* A catalog token stands for a catalog of a class with columns: "visit"   *)
(* is a ParquetCatalog with a ccdId column, "coadd" one with a patchId     *)
(* column, "matched" a MatchedCatalog whose cat1 has a ccdId column,       *)
(* "bare" one with neither, "multi" a MultiMatchedCatalog and "multiband"  *)
(* a MultiBandCatalog, both as dataset.py uses them: with match distances  *)
(* and visit_names (a MultiBandCatalog is taken to be a                    *)
(* MultiMatchedCatalog).  A functor set token stands for the dictionary    *)
(* funcs with the default xFunc and labeller.  _ds_dict and _color_ds_dict *)
(* are None until _make_ds assigns them: reading them before raises        *)
(* AttributeError.                                                         *)
(***************************************************************************)
CatalogClass(c) ==
    CASE c = "matched" -> "MatchedCatalog"
      [] c = "multi" -> "MultiMatchedCatalog"
      [] c = "multiband" -> "MultiBandCatalog"
      [] OTHER -> "ParquetCatalog"

\* the columns of the catalog (of cat1 for a MatchedCatalog)
CatalogColumns(c) ==
    CASE c \in {"visit", "matched", "multi"} -> {"ccdId", "coord_ra", "coord_dec"}
      [] c \in {"coadd", "multiband"} -> {"patchId", "coord_ra", "coord_dec"}
      [] OTHER -> {"coord_ra", "coord_dec"}

\* isinstance(self.catalog, ...)
is_matched(q) ==
    CatalogClass(q.catalog) \in {"MatchedCatalog", "MultiMatchedCatalog", "MultiBandCatalog"}
is_multi_matched(q) ==
    CatalogClass(q.catalog) \in {"MultiMatchedCatalog", "MultiBandCatalog"}
is_idmatched(q) == CatalogClass(q.catalog) = "IDMatchedCatalog"
is_multiband(q) == CatalogClass(q.catalog) = "MultiBandCatalog"

\* QADataset.id_name
id_name(q) ==
    IF is_idmatched(q) THEN Some("patchId")
    ELSE IF is_multi_matched(q) THEN Some("ccdId")
    ELSE IF "ccdId" \in CatalogColumns(q.catalog) THEN Some("ccdId")
    ELSE IF "patchId" \in CatalogColumns(q.catalog) THEN Some("patchId")
    ELSE None

\* the dictionary self.funcs of a functor set
FuncsOf(funcs) ==
    IF funcs = "funcs1" THEN "y0" :> Mag(<<"base_PsfFlux">>, None)
    ELSE "y0" :> Column(<<"a">>, None)

\* the default xFunc and labeller of QADataset.__init__
DefaultXFunc == Mag(<<"base_PsfFlux">>, Some(FALSE))
DefaultLabeller == StarGalaxyLabeller(None)

\* dict.update: the entries of new replace those of d
Update(d, new) == new @@ d

\* QADataset.allfuncs
allfuncs(q) ==
    With(Update(FuncsOf(q.funcs),
                ("ra" :> RAColumn(FALSE)) @@ ("dec" :> DecColumn(FALSE))
                    @@ ("x" :> DefaultXFunc)), LAMBDA a1 :
    With(IF ~IsNone(id_name(q))
         THEN Update(a1, id_name(q).val :> Column(<<id_name(q).val>>, None))
         ELSE a1, LAMBDA a2 :
    With(Update(a2, [f \in Range(q.flags) |-> Column(<<f>>, None)]), LAMBDA a3 :
        Update(a3, "label" :> DefaultLabeller))))

\* QADataset.mag_names
mag_names(q) == {name \in DOMAIN FuncsOf(q.funcs) : FuncsOf(q.funcs)[name].cls = "Mag"}

\* an hv.Dataset, known by the table it was built from
Dataset(kind, key, table) == [kind |-> kind, key |-> key, table |-> table]

\* QADataset.color_ds: for a catalog that is not multi-band the exception
\* object is returned, not raised
color_ds(q, fs, mag) ==
    IF ~is_multiband(q)
    THEN [raised |-> FALSE, q |-> q, value |-> Str("NotImplementedError")]
    ELSE IF mag \notin DOMAIN allfuncs(q) \/ allfuncs(q)[mag].cls # "Mag"
    THEN [raised |-> TRUE, q |-> q, value |-> Str("ValueError")]
    ELSE With(df(q, fs, "tmpa"), LAMBDA r :
            IF r.raised THEN [raised |-> TRUE, q |-> r.q, value |-> Str("Exception")]
            ELSE [raised |-> FALSE, q |-> r.q,
                  value |-> Dataset("color", mag, r.value.val)])

\* self.catalog.visit_names
visit_names == {"v1"}

\* the keys of _ds_dict: ['coadd'] + self.catalog.visit_names
VisitKeys == {"coadd"} \cup visit_names

\* QADataset._make_ds
_make_ds(q, fs) ==
    With(IF is_multiband(q) THEN [q EXCEPT !._color_ds_dict = Some(<<>>)] ELSE q,
         LAMBDA q0 :
    With(df(q0, fs, "tmpa"), LAMBDA r :
        IF r.raised THEN [raised |-> TRUE, q |-> r.q]
        ELSE IF is_multiband(q)
        THEN [raised |-> FALSE,
              q |-> [r.q EXCEPT
                        !._color_ds_dict =
                            Some([mag \in mag_names(q) |->
                                    Dataset("color", mag, r.value.val)]),
                        !._ds = Some(Dataset("ds", "", r.value.val))]]
        ELSE IF is_multi_matched(q)
        THEN [raised |-> FALSE,
              q |-> [r.q EXCEPT
                        !._ds_dict =
                            Some([k \in VisitKeys |-> Dataset("visit", k, r.value.val)]),
                        !._ds = Some(Dataset("ds", "", r.value.val))]]
        ELSE [raised |-> FALSE,
              q |-> [r.q EXCEPT !._ds = Some(Dataset("ds", "", r.value.val))]]))

\* self._ds_dict[key] / self._color_ds_dict[key]
Lookup(q, attr, key) ==
    IF IsNone(q[attr]) THEN [raised |-> TRUE, q |-> q, value |-> Str("AttributeError")]
    ELSE IF key \notin DOMAIN q[attr].val
         THEN [raised |-> TRUE, q |-> q, value |-> Str("KeyError")]
         ELSE [raised |-> FALSE, q |-> q, value |-> q[attr].val[key]]

\* the guard of ds, get_ds and get_color_ds: if self._ds is None: self._make_ds()
EnsureDs(q, fs) ==
    IF IsNone(q._ds) THEN _make_ds(q, fs) ELSE [raised |-> FALSE, q |-> q]

\* QADataset.ds
ds(q, fs) ==
    With(EnsureDs(q, fs), LAMBDA r :
        IF r.raised THEN [raised |-> TRUE, q |-> r.q, value |-> Str("Exception")]
        ELSE [raised |-> FALSE, q |-> r.q, value |-> r.q._ds.val])

\* QADataset.get_ds
get_ds(q, fs, key) ==
    With(EnsureDs(q, fs), LAMBDA r :
        IF r.raised THEN [raised |-> TRUE, q |-> r.q, value |-> Str("Exception")]
        ELSE Lookup(r.q, "_ds_dict", key))

\* QADataset.get_color_ds
get_color_ds(q, fs, key) ==
    With(EnsureDs(q, fs), LAMBDA r :
        IF r.raised THEN [raised |-> TRUE, q |-> r.q, value |-> Str("Exception")]
        ELSE Lookup(r.q, "_color_ds_dict", key))

(***************************************************************************)
(* SpecViews: one QADataset whose inputs are changed and whose datasets    *)
(* are read in any order.  qa_hist.last is what the last call did: whether *)
(* it raised and the value it returned.                                    *)
(***************************************************************************)
ViewCatalogs == {"visit", "bare", "multi", "multiband"}
ViewKeys == VisitKeys \cup {"y0"}
MagArgs == {"y0", "ra", "nokey"}

InitViews ==
    /\ \E c \in ViewCatalogs, f \in FunctorSets, fl \in FlagLists, qy \in Queries :
          qa = QADataset_init(c, f, Some(fl), qy, None, FALSE)
    /\ files = {}
    /\ qa_hist = [last |-> [op |-> "init", raised |-> FALSE, value |-> Str("")]]
    /\ mc = Idle /\ mc_ret = Idle
    /\ mmc = Idle /\ mmc_args = Idle /\ mmc_ret = Idle
    /\ cat = Idle /\ gc_ret = Idle
    /\ fn = Idle /\ fn_ret = Idle /\ tbl = Idle /\ tbl_ret = Idle

ViewChanged(op) == [last |-> [op |-> op, raised |-> FALSE, value |-> Str("")]]

ViewReturned(op, r) == [last |-> [op |-> op, raised |-> r.raised, value |-> r.value]]

ChangeCatalog ==
    /\ \E c \in ViewCatalogs : qa' = _set_catalog(qa, c)
    /\ qa_hist' = ViewChanged("_set_catalog")
    /\ UNCHANGED files
    /\ OthersIdleDataset

ChangeFuncs ==
    /\ \E f \in FunctorSets : qa' = _set_funcs(qa, f)
    /\ qa_hist' = ViewChanged("_set_funcs")
    /\ UNCHANGED files
    /\ OthersIdleDataset

ChangeFlags ==
    /\ \E fl \in {None} \cup {Some(x) : x \in FlagLists} : qa' = _set_flags(qa, fl)
    /\ qa_hist' = ViewChanged("_set_flags")
    /\ UNCHANGED files
    /\ OthersIdleDataset

ChangeQuery ==
    /\ \E qy \in Queries : qa' = set_query(qa, qy)
    /\ qa_hist' = ViewChanged("query")
    /\ UNCHANGED files
    /\ OthersIdleDataset

\* d.ds
ReadDs ==
    /\ \E r \in {ds(qa, files)} :
          /\ qa' = r.q
          /\ qa_hist' = ViewReturned("ds", r)
    /\ UNCHANGED files
    /\ OthersIdleDataset

\* d.get_ds(key)
GetDs ==
    /\ \E key \in ViewKeys : \E r \in {get_ds(qa, files, key)} :
          /\ qa' = r.q
          /\ qa_hist' = ViewReturned("get_ds", r)
    /\ UNCHANGED files
    /\ OthersIdleDataset

\* d.get_color_ds(key)
GetColorDs ==
    /\ \E key \in ViewKeys : \E r \in {get_color_ds(qa, files, key)} :
          /\ qa' = r.q
          /\ qa_hist' = ViewReturned("get_color_ds", r)
    /\ UNCHANGED files
    /\ OthersIdleDataset

\* d.color_ds(mag)
ColorDs ==
    /\ \E mag \in MagArgs : \E r \in {color_ds(qa, files, mag)} :
          /\ qa' = r.q
          /\ qa_hist' = ViewReturned("color_ds", r)
    /\ UNCHANGED files
    /\ OthersIdleDataset

NextViews ==
    \/ ChangeCatalog
    \/ ChangeFuncs
    \/ ChangeFlags
    \/ ChangeQuery
    \/ ReadDs
    \/ GetDs
    \/ GetColorDs
    \/ ColorDs

SpecViews == InitViews /\ [][NextViews]_vars

\* C13: in every QADataset the functors that allfuncs binds to ra, dec, label
\* and the identifier column all have allow_difference equal to False
C13_DefaultsNeverDifferenced ==
    \A k \in {"ra", "dec", "label"}
             \cup (IF IsNone(id_name(qa)) THEN {} ELSE {id_name(qa).val}) :
        ~allfuncs(qa)[k].allow_difference

\* C16: color_ds(mag) on a QADataset whose catalog is not a multi-band
\* catalog raises: the call never returns a value
C16_ColorDsRaisesOffMultiband ==
    (qa_hist.last.op = "color_ds" /\ ~is_multiband(qa)) => qa_hist.last.raised

\* C20: a dataset returned by ds, get_ds(key) or get_color_ds(key) is built
\* from the table of the current catalog, functors, flags and query, never
\* from a table materialized before the last change of one of them
C20_ViewsBuiltAfterChange ==
    (qa_hist.last.op \in {"ds", "get_ds", "get_color_ds"} /\ ~qa_hist.last.raised)
        => qa_hist.last.value.table = Table(qa)

\* C22: every sub-catalog of a constructed MultiMatchedCatalog has the
\* match_radius and the client given to the MultiMatchedCatalog
C22_SubcatsShareConfiguration ==
    Constructed =>
        \A i \in 1..Len(mmc.subcats) :
            /\ mmc.subcats[i].match_radius = mmc.match_radius
            /\ mmc.subcats[i].client = mmc.client

\* C21: save leaves the QADataset unchanged: after the call the client and
\* every other attribute have the values they had before it
C21_SaveLeavesDatasetUnchanged == [][Save => qa' = qa]_vars

(***************************************************************************)
(* ParquetCatalog construction.  A Python string is a sequence of          *)
(* characters, a list or a tuple a sequence of items; each value carries   *)
(* its type.  The storage holds the files of Filenames.                    *)
(***************************************************************************)
MaxFiles == 2

\* a character of a string
Chr(c) == [chr |-> c]

PyStr(chars) == [type |-> "str", val |-> chars]
PyList(items) == [type |-> "list", val |-> items]
PyTuple(items) == [type |-> "tuple", val |-> items]

Filenames == {PyStr(<<Chr("a"), Chr("1")>>), PyStr(<<Chr("b"), Chr("2")>>)}

\* x[0] of a string, a list or a tuple: IndexError when it is empty
Index0(x) ==
    IF Len(x.val) = 0 THEN [raised |-> TRUE, value |-> PyStr(<<>>)]
    ELSE IF x.type = "str" THEN [raised |-> FALSE, value |-> PyStr(<<x.val[1]>>)]
    ELSE [raised |-> FALSE, value |-> x.val[1]]

\* ParquetCatalog.__init__: the assignment under the if is followed by the
\* unconditional self.filenames = filenames
ParquetCatalog_init(filenames, client) ==
    With(IF filenames.type \notin {"list", "tuple"}
         THEN [filenames |-> PyList(<<filenames>>)]
         ELSE [filenames |-> None], LAMBDA self :
        [filenames |-> [self EXCEPT !.filenames = filenames].filenames,
         client |-> client, _coords |-> None, _df |-> None,
         _columns |-> None, _flags |-> None])

\* dd.read_parquet(path): the columns and the bool columns of a stored file;
\* a path that names no file raises
read_parquet(path) ==
    IF path \in Filenames
    THEN [raised |-> FALSE, columns |-> <<"coord_ra", "coord_dec", "flag1">>,
          flags |-> <<"flag1">>]
    ELSE [raised |-> TRUE, columns |-> <<>>, flags |-> <<>>]

\* ParquetCatalog.columns
ParquetCatalog_columns(self) ==
    IF ~IsNone(self._columns)
    THEN [raised |-> FALSE, self |-> self, value |-> self._columns.val]
    ELSE With(Index0(self.filenames), LAMBDA first :
         IF first.raised \/ read_parquet(first.value).raised
         THEN [raised |-> TRUE, self |-> self, value |-> <<>>]
         ELSE [raised |-> FALSE,
               self |-> [self EXCEPT !._columns = Some(read_parquet(first.value).columns)],
               value |-> read_parquet(first.value).columns])

\* ParquetCatalog.flags
ParquetCatalog_flags(self) ==
    IF ~IsNone(self._flags)
    THEN [raised |-> FALSE, self |-> self, value |-> self._flags.val]
    ELSE With(Index0(self.filenames), LAMBDA first :
         IF first.raised \/ read_parquet(first.value).raised
         THEN [raised |-> TRUE, self |-> self, value |-> <<>>]
         ELSE [raised |-> FALSE,
               self |-> [self EXCEPT !._flags = Some(read_parquet(first.value).flags)],
               value |-> read_parquet(first.value).flags])

(***************************************************************************)
(* SpecParquet: a ParquetCatalog is constructed from one filename or from  *)
(* a list or tuple of filenames; its columns and flags are read in any     *)
(* order.  gc_ret is the outcome of the last read.                         *)
(***************************************************************************)
FilenameArgs ==
    Filenames
    \cup {PyList(fs) : fs \in SeqsUpTo(Filenames, MaxFiles) \ {<<>>}}
    \cup {PyTuple(fs) : fs \in SeqsUpTo(Filenames, MaxFiles) \ {<<>>}}

InitParquet ==
    /\ \E filenames \in FilenameArgs, cl \in Clients :
          cat = ParquetCatalog_init(filenames, cl)
    /\ gc_ret = [op |-> "init", raised |-> FALSE, value |-> <<>>]
    /\ mc = Idle /\ mc_ret = Idle
    /\ mmc = Idle /\ mmc_args = Idle /\ mmc_ret = Idle
    /\ qa = Idle /\ files = {} /\ qa_hist = Idle
    /\ fn = Idle /\ fn_ret = Idle /\ tbl = Idle /\ tbl_ret = Idle

OthersIdleParquet ==
    UNCHANGED <<mc, mc_ret, mmc, mmc_args, mmc_ret, qa, files, qa_hist,
                fn, fn_ret, tbl, tbl_ret>>

\* c.columns
ReadParquetColumns ==
    /\ \E r \in {ParquetCatalog_columns(cat)} :
          /\ cat' = r.self
          /\ gc_ret' = [op |-> "columns", raised |-> r.raised, value |-> r.value]
    /\ OthersIdleParquet

\* c.flags
ReadParquetFlags ==
    /\ \E r \in {ParquetCatalog_flags(cat)} :
          /\ cat' = r.self
          /\ gc_ret' = [op |-> "flags", raised |-> r.raised, value |-> r.value]
    /\ OthersIdleParquet

NextParquet ==
    \/ ReadParquetColumns
    \/ ReadParquetFlags

SpecParquet == InitParquet /\ [][NextParquet]_vars

\* C23: the filenames attribute of a constructed ParquetCatalog is a list
\* or a tuple, and filenames[0] is one of the filenames given
C23_FilenamesIsSequence ==
    /\ cat.filenames.type \in {"list", "tuple"}
    /\ ~Index0(cat.filenames).raised
    /\ Index0(cat.filenames).value \in Filenames

====
